---- MODULE Spec2Model ----
(***************************************************************************)
(* Model of src/features/MainMenu/Decorations.tsx: the process-wide        *)
(* decoration-font cache (loadDecorationFonts), the KanjiCharacter cell    *)
(* (style initialisation effect, click handler, timer chain) and the       *)
(* passage of time that drives the setTimeout callbacks.                   *)
(***************************************************************************)
EXTENDS Integers, Sequences, FiniteSets, TLC

\* ---------------------------------------------------------------- bounds
NumCells == 2      \* KanjiCharacter instances that may mount
MaxClicks == 2     \* clicks delivered to the cells, all together
MaxEntries == 2    \* entries in one /kanji/{LEVEL}.json

\* ------------------------------------------------------ program constants
ExplodeMs == 300   \* setTimeout(..., 300)
FadeInMs == 500    \* setTimeout(..., 500)
\* variant: the hidden delay written as the fade-in delay
HiddenMsAsFadeIn == FadeInMs
HiddenMs == 1500   \* setTimeout(..., 1500)

Cells == 1..NumCells

\* `fontsLoadingPromise = null` (promises are numbered from 1)
Null == 0

\* `fontsCache = null`, a value that is no font list
NullFonts == <<"null">>

\* module.decorationFonts of './decorationFonts', each font by its className
\* (a non-empty list; which font a cell draws from it bears on no property here)
decorationFonts == <<"fontA">>

\* allMainColors: colours of themeSets[2]
allMainColors == <<"color1">>

\* animations
animations == <<"motion-safe:animate-pulse">>

NodeEnvs == {"production", "development"}

AnimStates == {"idle", "exploding", "hidden", "fading-in"}

\* kanjiSources = ['N5', 'N4', 'N3'], by position
kanjiSources == <<"N5", "N4", "N3">>
Levels == 1..Len(kanjiSources)

VARIABLES
  nodeEnv,              \* process.env.NODE_ENV
  fontsCache,           \* NullFonts or the cached font list
  fontsLoadingPromise,  \* Null or the index (in imports) of the pending load
  imports,              \* one entry per import('./decorationFonts') started
  pc,                   \* per cell: position of the mount effect
  isMounted,            \* per cell: the effect's local isMounted flag
  forceShow,            \* per cell: prop
  interactive,          \* per cell: prop
  callInfo,             \* per cell: what its loadDecorationFonts call did
  received,             \* per cell: what `await loadDecorationFonts` gave
  mounted,              \* per cell: useState(mounted)
  styles,               \* per cell: useState(styles)
  animState,            \* per cell: useState(animState)
  timers,               \* per cell: pending setTimeout callbacks
  clickCount,           \* per cell: clicks delivered to the span
  audioCount,           \* per cell: playClick() calls
  elapsed,              \* per cell: ms since the last accepted click (-1: none),
                        \*   no longer counted once a whole cycle has passed
  styleWrites,          \* per cell: setStyles() calls
  fetchState,           \* per level: the fetch + json + map of that level
  fetched,              \* per level: the kanjiChar list it produced
  fetchStarts,          \* per level: fetch() calls made
  fieldPc,              \* position of the Decorations mount effect
  fieldIsMounted,       \* the Decorations effect's local isMounted flag
  kanjiList             \* useState(kanjiList)

loaderVars == <<nodeEnv, fontsCache, fontsLoadingPromise, imports>>
cellInitVars == <<pc, isMounted, forceShow, interactive, callInfo, received, mounted, styles>>
animVars == <<animState, timers, clickCount, audioCount, elapsed>>
fieldVars == <<fetchState, fetched, fetchStarts, fieldPc, fieldIsMounted, kanjiList>>
vars == <<loaderVars, cellInitVars, animVars, styleWrites, fieldVars>>

\* useState initial value of styles
EmptyStyles == [color |-> "", fontClass |-> "", animation |-> ""]

NoCall == [kind |-> "none", promise |-> Null, value |-> << >>, loaded |-> FALSE, pending |-> Null, nImports |-> 0]

NothingReceived == [status |-> "none", fonts |-> << >>]

Init ==
  /\ nodeEnv \in NodeEnvs
  /\ fontsCache = NullFonts
  /\ fontsLoadingPromise = Null
  /\ imports = << >>
  /\ pc = [c \in Cells |-> "init"]
  /\ isMounted = [c \in Cells |-> FALSE]
  /\ forceShow = [c \in Cells |-> FALSE]
  /\ interactive = [c \in Cells |-> FALSE]
  /\ callInfo = [c \in Cells |-> NoCall]
  /\ received = [c \in Cells |-> NothingReceived]
  /\ mounted = [c \in Cells |-> FALSE]
  /\ styles = [c \in Cells |-> EmptyStyles]
  /\ animState = [c \in Cells |-> "idle"]
  /\ timers = [c \in Cells |-> {}]
  /\ clickCount = [c \in Cells |-> 0]
  /\ audioCount = [c \in Cells |-> 0]
  /\ elapsed = [c \in Cells |-> -1]
  /\ styleWrites = [c \in Cells |-> 0]
  /\ fetchState = [l \in Levels |-> "idle"]
  /\ fetched = [l \in Levels |-> << >>]
  /\ fetchStarts = [l \in Levels |-> 0]
  /\ fieldPc = "init"
  /\ fieldIsMounted = FALSE
  /\ kanjiList = << >>

\* ------------------------------------------------- loadDecorationFonts

\* if (process.env.NODE_ENV !== 'production' && !forceLoad) return [];
\* variant: the mode/force check left out
SkipsNothing(forceLoad) == FALSE
SkipsLoading(forceLoad) == nodeEnv # "production" /\ ~forceLoad

\* if (fontsCache) -- an array, even an empty one, is truthy
\* variant: the cache test left out
CacheHitNever == FALSE
CacheHit == fontsCache # NullFonts

\* if (fontsLoadingPromise)
\* variant: the pending-load test left out
LoadPendingNever == FALSE
LoadPending == fontsLoadingPromise # Null

\* The call made by cell c; what it returns is recorded in callInfo[c]:
\*   "skipped" the literal [], "cached" fontsCache, "joined" the pending
\*   promise, "started" the promise of the import it has just begun;
\*   loaded, pending and nImports record the cache, the load in flight and
\*   the number of imports begun, as the call found them.
loadDecorationFonts(c, forceLoad) ==
  LET seen == [loaded |-> fontsCache # NullFonts,
               pending |-> IF fontsLoadingPromise # Null /\ imports[fontsLoadingPromise] = "pending"
                           THEN fontsLoadingPromise ELSE Null,
               nImports |-> Len(imports)]
      Returns(k, p, v) == [kind |-> k, promise |-> p, value |-> v, loaded |-> seen.loaded,
                           pending |-> seen.pending, nImports |-> seen.nImports]
  IN
  IF SkipsLoading(forceLoad) THEN
    /\ callInfo' = [callInfo EXCEPT ![c] = Returns("skipped", Null, << >>)]
    /\ UNCHANGED <<fontsCache, fontsLoadingPromise, imports>>
  ELSE IF CacheHit THEN
    /\ callInfo' = [callInfo EXCEPT ![c] = Returns("cached", Null, fontsCache)]
    /\ UNCHANGED <<fontsCache, fontsLoadingPromise, imports>>
  ELSE IF LoadPending THEN
    /\ callInfo' = [callInfo EXCEPT ![c] = Returns("joined", fontsLoadingPromise, << >>)]
    /\ UNCHANGED <<fontsCache, fontsLoadingPromise, imports>>
  ELSE
    /\ imports' = Append(imports, "pending")
    /\ fontsLoadingPromise' = Len(imports) + 1
    /\ callInfo' = [callInfo EXCEPT ![c] = Returns("started", Len(imports) + 1, << >>)]
    /\ UNCHANGED fontsCache

\* import('./decorationFonts') fulfils and its .then callback runs:
\*   fontsCache = module.decorationFonts; fontsLoadingPromise = null;
ImportResolve(i) ==
  /\ i \in 1..Len(imports)
  /\ imports[i] = "pending"
  /\ imports' = [imports EXCEPT ![i] = "fulfilled"]
  /\ fontsCache' = decorationFonts
  /\ fontsLoadingPromise' = Null
  /\ UNCHANGED <<nodeEnv, cellInitVars, animVars, styleWrites, fieldVars>>

\* import('./decorationFonts') rejects: the .then callback never runs, so
\* the handle keeps the rejected promise and the cache stays null.
ImportReject(i) ==
  /\ i \in 1..Len(imports)
  /\ imports[i] = "pending"
  /\ imports' = [imports EXCEPT ![i] = "rejected"]
  /\ UNCHANGED <<nodeEnv, fontsCache, fontsLoadingPromise, cellInitVars, animVars, styleWrites, fieldVars>>

\* ------------------------------------------------------ KanjiCharacter

\* useEffect(() => { let isMounted = true; ... void initializeStyles(); }, [])
\* initializeStyles runs synchronously up to `await loadDecorationFonts(forceShow)`.
Mount(c) ==
  /\ pc[c] = "init"
  /\ \A b \in Cells : b < c => pc[b] # "init"   \* children mount in list order
  /\ \E f \in BOOLEAN, i \in BOOLEAN :
       /\ forceShow' = [forceShow EXCEPT ![c] = f]
       /\ interactive' = [interactive EXCEPT ![c] = i]
       /\ loadDecorationFonts(c, f)
  /\ isMounted' = [isMounted EXCEPT ![c] = TRUE]
  /\ pc' = [pc EXCEPT ![c] = "await"]
  /\ UNCHANGED <<nodeEnv, received, mounted, styles, animVars, styleWrites, fieldVars>>

\* the effect's cleanup: isMounted = false
Unmount(c) ==
  /\ isMounted[c]
  /\ isMounted' = [isMounted EXCEPT ![c] = FALSE]
  /\ UNCHANGED <<loaderVars, pc, forceShow, interactive, callInfo, received, mounted, styles, animVars, styleWrites, fieldVars>>

\* the awaited call has settled with a value
Settled(c) ==
  \/ callInfo[c].kind \in {"skipped", "cached"}
  \/ /\ callInfo[c].kind \in {"joined", "started"}
     /\ imports[callInfo[c].promise] = "fulfilled"

\* the awaited call has settled with a rejection
Rejected(c) ==
  /\ callInfo[c].kind \in {"joined", "started"}
  /\ imports[callInfo[c].promise] = "rejected"

\* the value of `fonts` after the await
AwaitedFonts(c) ==
  IF callInfo[c].kind \in {"skipped", "cached"} THEN callInfo[c].value ELSE decorationFonts

\* what the promise returned by cell c's call has settled to, if it has
CallResult(c) ==
  IF Settled(c) THEN [status |-> "ok", fonts |-> AwaitedFonts(c)]
  ELSE IF Rejected(c) THEN [status |-> "rejected", fonts |-> << >>]
  ELSE [status |-> "pending", fonts |-> << >>]

\* randomFont?.font.className ?? ''
FontClassChoices(fonts) ==
  IF Len(fonts) > 0 THEN { fonts[k] : k \in 1..Len(fonts) } ELSE { "" }

\* variant: the effect is left to run again (no dependency array), so the
\* styles are drawn and set anew
InitializeStylesAgain(c) ==
  /\ pc[c] \in {"await", "done"}
  /\ Settled(c)
  /\ isMounted[c]
  /\ received' = [received EXCEPT ![c] = CallResult(c)]
  /\ pc' = [pc EXCEPT ![c] = "done"]
  /\ \E ci \in 1..Len(allMainColors), ai \in 1..Len(animations),
        fc \in FontClassChoices(AwaitedFonts(c)) :
       styles' = [styles EXCEPT ![c] =
         [color |-> allMainColors[ci], fontClass |-> fc, animation |-> animations[ai]]]
  /\ mounted' = [mounted EXCEPT ![c] = TRUE]
  /\ styleWrites' = [styleWrites EXCEPT ![c] = @ + 1]
  /\ UNCHANGED <<loaderVars, isMounted, forceShow, interactive, callInfo, animVars, fieldVars>>

\* initializeStyles after the await: the isMounted guard, the random picks,
\* setStyles(...) and setMounted(true)
InitializeStyles(c) ==
  /\ pc[c] = "await"
  /\ Settled(c)
  /\ received' = [received EXCEPT ![c] = CallResult(c)]
  /\ pc' = [pc EXCEPT ![c] = "done"]
  /\ IF ~isMounted[c]
     THEN UNCHANGED <<styles, mounted, styleWrites>>
     ELSE /\ \E ci \in 1..Len(allMainColors), ai \in 1..Len(animations),
                fc \in FontClassChoices(AwaitedFonts(c)) :
               styles' = [styles EXCEPT ![c] =
                 [color |-> allMainColors[ci], fontClass |-> fc, animation |-> animations[ai]]]
          /\ mounted' = [mounted EXCEPT ![c] = TRUE]
          /\ styleWrites' = [styleWrites EXCEPT ![c] = @ + 1]
  /\ UNCHANGED <<loaderVars, isMounted, forceShow, interactive, callInfo, animVars, fieldVars>>

\* the await throws: initializeStyles rejects, and `void` drops the rejection
InitializeStylesFails(c) ==
  /\ pc[c] = "await"
  /\ Rejected(c)
  /\ received' = [received EXCEPT ![c] = CallResult(c)]
  /\ pc' = [pc EXCEPT ![c] = "failed"]
  /\ UNCHANGED <<loaderVars, isMounted, forceShow, interactive, callInfo, mounted, styles, animVars, styleWrites, fieldVars>>

\* if (!interactive || animState !== 'idle') return;
\* variant: the idle test left out
ClickIgnoredUnlessInteractive(c) == ~interactive[c]
ClickIgnored(c) == ~interactive[c] \/ animState[c] # "idle"

\* setTimeout(callback, delay): the callback is named by the state it sets
Timer(step, delay) == [left |-> delay, step |-> step]

handleClick(c) ==
  IF ClickIgnored(c)
  THEN UNCHANGED <<animState, timers, audioCount, elapsed>>
  ELSE /\ audioCount' = [audioCount EXCEPT ![c] = @ + 1]
       /\ animState' = [animState EXCEPT ![c] = "exploding"]
       /\ timers' = [timers EXCEPT ![c] = @ \cup {Timer("hidden", ExplodeMs)}]
       /\ elapsed' = [elapsed EXCEPT ![c] = 0]

\* if (!mounted) return null;  -- the span exists once mounted is set and
\* until the component is torn down
\* variant: the span is rendered before mounted is set
RenderedFromMount(c) == isMounted[c]
Rendered(c) == mounted[c] /\ isMounted[c]

RECURSIVE SumUpTo(_, _)
SumUpTo(f, n) == IF n = 0 THEN 0 ELSE f[n] + SumUpTo(f, n - 1)

\* clicks delivered so far
TotalClicks == SumUpTo(clickCount, NumCells)

\* variant: onClick is bound on every cell, to a handler that tests only
\* the animation state
ClickAnyCell(c) ==
  /\ Rendered(c)
  /\ TotalClicks < MaxClicks
  /\ clickCount' = [clickCount EXCEPT ![c] = @ + 1]
  /\ IF animState[c] # "idle"
     THEN UNCHANGED <<animState, timers, audioCount, elapsed>>
     ELSE /\ audioCount' = [audioCount EXCEPT ![c] = @ + 1]
          /\ animState' = [animState EXCEPT ![c] = "exploding"]
          /\ timers' = [timers EXCEPT ![c] = @ \cup {Timer("hidden", ExplodeMs)}]
          /\ elapsed' = [elapsed EXCEPT ![c] = 0]
  /\ UNCHANGED <<loaderVars, cellInitVars, styleWrites, fieldVars>>

\* onClick={interactive ? handleClick : undefined}
Click(c) ==
  /\ Rendered(c)
  /\ TotalClicks < MaxClicks
  /\ clickCount' = [clickCount EXCEPT ![c] = @ + 1]
  /\ IF interactive[c]
     THEN handleClick(c)
     ELSE UNCHANGED <<animState, timers, audioCount, elapsed>>
  /\ UNCHANGED <<loaderVars, cellInitVars, styleWrites, fieldVars>>

\* the callbacks nested in handleClick; each sets the state and schedules
\* the next one
\* variant: the hidden callback schedules the return to idle directly
NextTimersSkipFade(t) ==
  IF t.step = "hidden" THEN {Timer("idle", HiddenMs)} ELSE {}
\* variant: the fade-in callback does not schedule the return to idle
NextTimersNoReturn(t) ==
  IF t.step = "hidden" THEN {Timer("fading-in", HiddenMs)} ELSE {}
NextTimers(t) ==
  CASE t.step = "hidden" -> {Timer("fading-in", HiddenMs)}
    [] t.step = "fading-in" -> {Timer("idle", FadeInMs)}
    [] OTHER -> {}

TimerFire(c) ==
  \E t \in timers[c] :
    /\ t.left = 0
    /\ animState' = [animState EXCEPT ![c] = t.step]
    /\ timers' = [timers EXCEPT ![c] = (@ \ {t}) \cup NextTimers(t)]
    /\ UNCHANGED <<loaderVars, cellInitVars, clickCount, audioCount, elapsed, styleWrites, fieldVars>>

\* getAnimationStyle
getAnimationStyle(c) ==
  IF ~interactive[c] THEN "animationDelay"
  ELSE CASE animState[c] = "exploding" -> "explode 300ms ease-out forwards"
         [] animState[c] = "hidden" -> "opacity: 0"
         [] animState[c] = "fading-in" -> "fadeIn 500ms ease-in forwards"
         [] OTHER -> "none"

\* ------------------------------------------------------------- time

\* the whole cycle: 300 + 1500 + 500
CycleMs == ExplodeMs + HiddenMs + FadeInMs

PendingTimers == UNION { timers[c] : c \in Cells }

Min(S) == CHOOSE x \in S : \A y \in S : x <= y

\* time passes until the next callback is due: a pending callback runs when
\* its delay has elapsed, and nothing else in the program depends on time
AdvanceTime ==
  /\ PendingTimers # {}
  /\ \A t \in PendingTimers : t.left > 0
  /\ LET d == Min({ t.left : t \in PendingTimers }) IN
       /\ timers' = [c \in Cells |-> { [t EXCEPT !.left = @ - d] : t \in timers[c] }]
       /\ elapsed' = [c \in Cells |->
            IF elapsed[c] < 0 THEN elapsed[c] ELSE Min({elapsed[c] + d, CycleMs})]
  /\ UNCHANGED <<loaderVars, cellInitVars, animState, clickCount, audioCount, styleWrites, fieldVars>>

\* --------------------------------------------------------- Decorations

\* the kanjiChar values of a response with n entries
Glyphs == <<"k1", "k2">>
Response(n) == [i \in 1..n |-> Glyphs[((i - 1) % Len(Glyphs)) + 1]]

\* arr with x put in after its first k elements
\* variant: the element after the insertion point is overwritten
InsertOver(arr, x, k) == SubSeq(arr, 1, k) \o <<x>> \o SubSeq(arr, k + 2, Len(arr))
Insert(arr, x, k) == SubSeq(arr, 1, k) \o <<x>> \o SubSeq(arr, k + 1, Len(arr))

\* arr.slice().sort(() => Math.random() - 0.5): the sort takes the elements
\* one by one and puts each among those already placed, at the position the
\* coin-flip comparisons lead it to; every outcome the flips can produce
RECURSIVE shuffle(_)
shuffle(arr) ==
  IF Len(arr) = 0 THEN { << >> }
  ELSE LET front == SubSeq(arr, 1, Len(arr) - 1)
           x == arr[Len(arr)]
       IN { Insert(placed, x, k) : placed \in shuffle(front), k \in 0..Len(front) }

\* results.flat(), results in the order of kanjiSources
RECURSIVE FlatUpTo(_, _)
FlatUpTo(results, n) == IF n = 0 THEN << >> ELSE FlatUpTo(results, n - 1) \o results[n]
Flat(results) == FlatUpTo(results, Len(kanjiSources))

\* useEffect(() => { let isMounted = true; ... void loadKanji(); }, []):
\* loadKanji runs up to the await, having issued the three fetches
FieldMount ==
  /\ fieldPc = "init"
  /\ fieldPc' = "await"
  /\ fieldIsMounted' = TRUE
  /\ fetchState' = [l \in Levels |-> "pending"]
  /\ fetchStarts' = [l \in Levels |-> fetchStarts[l] + 1]
  /\ UNCHANGED <<loaderVars, cellInitVars, animVars, styleWrites, fetched, kanjiList>>

\* the effect's cleanup: isMounted = false
FieldUnmount ==
  /\ fieldIsMounted
  /\ fieldIsMounted' = FALSE
  /\ UNCHANGED <<loaderVars, cellInitVars, animVars, styleWrites, fetchState, fetched, fetchStarts, fieldPc, kanjiList>>

\* fetch, response.json() and data.map(entry => entry.kanjiChar) succeed
FetchOk(l) ==
  /\ fetchState[l] = "pending"
  /\ \E n \in 0..MaxEntries : fetched' = [fetched EXCEPT ![l] = Response(n)]
  /\ fetchState' = [fetchState EXCEPT ![l] = "ok"]
  /\ UNCHANGED <<loaderVars, cellInitVars, animVars, styleWrites, fetchStarts, fieldPc, fieldIsMounted, kanjiList>>

\* the fetch rejects, or the body is not the JSON expected
FetchFail(l) ==
  /\ fetchState[l] = "pending"
  /\ fetchState' = [fetchState EXCEPT ![l] = "failed"]
  /\ UNCHANGED <<loaderVars, cellInitVars, animVars, styleWrites, fetched, fetchStarts, fieldPc, fieldIsMounted, kanjiList>>

\* Promise.all(...) has fulfilled: every fetch produced its list
\* variant: every fetch has settled, the failed ones counting as empty lists
AllSettled == \A l \in Levels : fetchState[l] \in {"ok", "failed"}
AllFulfilled == \A l \in Levels : fetchState[l] = "ok"

\* if (!isMounted) return;
\* variant: the guard left out
FieldCancelledNever == FALSE
FieldCancelled == ~fieldIsMounted

\* loadKanji after the await: the guard, then setKanjiList(shuffle(results.flat()))
FieldJoin ==
  /\ fieldPc = "await"
  /\ AllFulfilled
  /\ IF FieldCancelled
     THEN fieldPc' = "dropped" /\ UNCHANGED kanjiList
     ELSE /\ fieldPc' = "done"
          /\ \E list \in shuffle(Flat(fetched)) : kanjiList' = list
  /\ UNCHANGED <<loaderVars, cellInitVars, animVars, styleWrites, fetchState, fetched, fetchStarts, fieldIsMounted>>

\* Promise.all(...) rejects with the first failure: loadKanji rejects, and
\* `void` drops the rejection
FieldJoinFails ==
  /\ fieldPc = "await"
  /\ \E l \in Levels : fetchState[l] = "failed"
  /\ fieldPc' = "failed"
  /\ UNCHANGED <<loaderVars, cellInitVars, animVars, styleWrites, fetchState, fetched, fetchStarts, fieldIsMounted, kanjiList>>

NextField ==
  \/ FieldMount
  \/ FieldUnmount
  \/ \E l \in Levels : FetchOk(l)
  \/ \E l \in Levels : FetchFail(l)
  \/ FieldJoin
  \/ FieldJoinFails

\* the field on its own
SpecField == Init /\ [][NextField]_vars

Next ==
  \/ \E c \in Cells : Mount(c)
  \/ \E c \in Cells : Unmount(c)
  \/ \E c \in Cells : InitializeStyles(c)
  \/ \E c \in Cells : InitializeStylesFails(c)
  \/ \E i \in 1..NumCells : ImportResolve(i)
  \/ \E i \in 1..NumCells : ImportReject(i)
  \/ \E c \in Cells : Click(c)
  \/ \E c \in Cells : TimerFire(c)
  \/ AdvanceTime

Spec == Init /\ [][Next]_vars

\* the event loop runs a callback once it is due, and time does not stand
\* still while callbacks are pending
SpecLive ==
  /\ Spec
  /\ WF_vars(AdvanceTime)
  /\ \A c \in Cells : WF_vars(TimerFire(c))

\* everything that delivers an asynchronous result, and the unmounts: the
\* field's fetches and the cells' font load, without the click handler and
\* its timers
NextAsync ==
  \/ NextField
  \/ \E c \in Cells : Mount(c)
  \/ \E c \in Cells : Unmount(c)
  \/ \E c \in Cells : InitializeStyles(c)
  \/ \E c \in Cells : InitializeStylesFails(c)
  \/ \E i \in 1..NumCells : ImportResolve(i)
  \/ \E i \in 1..NumCells : ImportReject(i)

SpecAsync == Init /\ [][NextAsync]_vars

TypeOK ==
  /\ nodeEnv \in NodeEnvs
  /\ fontsCache \in {decorationFonts, NullFonts}
  /\ fontsLoadingPromise \in 0..NumCells
  /\ \A c \in Cells : animState[c] \in AnimStates

\* ======================================================= font cache claims

Called(c) == callInfo[c].kind # "none"

\* the call passed the mode/force check
PassedCheck(c) == callInfo[c].kind \in {"cached", "joined", "started"}

EmptyList == [status |-> "ok", fonts |-> << >>]

\* the cell asked with force unset outside production mode
Unforced(c) == ~forceShow[c] /\ nodeEnv # "production"

\* C1: however many cells call loadDecorationFonts, in whatever order the
\* calls and the completion of the import come and whatever their force
\* flags, the import is started at most once; as soon as some caller has
\* passed the mode/force check it has been started exactly once.
C1_ImportStartedOnce ==
  /\ Len(imports) <= 1
  /\ (\E c \in Cells : PassedCheck(c)) => Len(imports) = 1

\* two first-time callers, both waiting for the one import
C1_Witness ==
  /\ imports = <<"pending">>
  /\ \E a, b \in Cells :
       /\ callInfo[a].kind = "started"
       /\ callInfo[b].kind = "joined"
       /\ pc[a] = "await" /\ pc[b] = "await"

\* C2 (as claimed): every caller that called while a load was in flight gets
\* the outcome of the caller that started that load, whatever its force flag.
C2_SameResultWhateverForce ==
  \A c, s \in Cells :
    ( /\ callInfo[s].kind = "started"
      /\ callInfo[c].pending = callInfo[s].promise
      /\ CallResult(s).status # "pending" )
    => CallResult(c) = CallResult(s)

\* C2 (amended): a caller that called while a load was in flight and passed
\* the mode/force check gets the outcome of the caller that started that
\* load (the same list, or the same rejection); a caller with force unset
\* outside production gets the empty list instead.
C2_SameResultIfCheckPassed ==
  \A c, s \in Cells :
    ( /\ callInfo[s].kind = "started"
      /\ callInfo[c].pending = callInfo[s].promise )
    => IF Unforced(c)
       THEN CallResult(c) = EmptyList
       ELSE /\ callInfo[c].promise = callInfo[s].promise
            /\ CallResult(c) = CallResult(s)

\* the starter and a caller that joined its load have both received the list
C2_Witness ==
  \E c, s \in Cells :
    /\ callInfo[s].kind = "started"
    /\ callInfo[c].kind = "joined"
    /\ callInfo[c].pending = callInfo[s].promise
    /\ received[s] = [status |-> "ok", fonts |-> decorationFonts]
    /\ received[c] = received[s]

\* C3 (as claimed): a call made after the load has completed returns the
\* cached list and starts no import, with force set or not.
C3_CachedWhateverForce ==
  \A c \in Cells :
    callInfo[c].loaded =>
      /\ callInfo[c].kind # "started"
      /\ CallResult(c) = [status |-> "ok", fonts |-> decorationFonts]

\* C3 (amended): a call made after the load has completed starts no import;
\* it returns the cached list if it passes the mode/force check (production
\* mode, or force set) and the empty list if it does not.
C3_CachedIfCheckPassed ==
  \A c \in Cells :
    callInfo[c].loaded =>
      /\ callInfo[c].kind # "started"
      /\ Len(imports) = callInfo[c].nImports
      /\ IF Unforced(c)
         THEN CallResult(c) = EmptyList
         ELSE /\ callInfo[c].value = fontsCache
              /\ CallResult(c) = [status |-> "ok", fonts |-> decorationFonts]

\* a cell that mounted after the load completed was styled from the cache
C3_Witness ==
  \E c \in Cells :
    /\ callInfo[c].loaded
    /\ PassedCheck(c)
    /\ mounted[c]
    /\ received[c] = [status |-> "ok", fonts |-> decorationFonts]

\* C4: a call that finds no load started returns the empty list and starts
\* no import when force is unset outside production, and every cell styled
\* from that result has the empty font class; with force set it starts the
\* import in either mode.
C4_SkipOrStartWhenNothingLoaded ==
  \A c \in Cells :
    (Called(c) /\ callInfo[c].nImports = 0) =>
      /\ Unforced(c) =>
           /\ callInfo[c].kind = "skipped"
           /\ CallResult(c) = EmptyList
           /\ (pc[c] = "done" => received[c] = EmptyList)
           /\ (mounted[c] => styles[c].fontClass = "")
      /\ forceShow[c] => callInfo[c].kind = "started"

\* outside production an unforced cell has rendered without a font class,
\* nothing having been imported until a forced cell called
C4_Witness ==
  /\ nodeEnv = "development"
  /\ \E a, b \in Cells :
       /\ ~forceShow[a] /\ callInfo[a].nImports = 0 /\ mounted[a]
       /\ styles[a].fontClass = "" /\ styles[a].color # ""
       /\ forceShow[b] /\ callInfo[b].kind = "started"

\* the first import is begun by a call: the handle is set, the cache is not
FirstLoadStarts ==
  /\ imports = << >>
  /\ imports' = <<"pending">>
  /\ fontsLoadingPromise' = 1
  /\ fontsCache' = fontsCache
  /\ \E c \in Cells : ~Called(c) /\ callInfo'[c].kind = "started"

\* the first import completes: the cache is filled and the handle cleared
FirstLoadCompletes ==
  /\ Len(imports) >= 1
  /\ imports[1] = "pending"
  /\ imports'[1] = "fulfilled"
  /\ fontsCache = NullFonts
  /\ fontsCache' = decorationFonts
  /\ fontsLoadingPromise' = Null

\* C5: once filled, the cache never changes again; and every step that
\* changes the cache or the pending-load handle is the first initiating
\* call starting its load or that load completing -- no other call writes.
C5_CacheWrittenByFirstLoadOnly ==
  [][ /\ (fontsCache # NullFonts => fontsCache' = fontsCache)
      /\ (<<fontsCache, fontsLoadingPromise>>' # <<fontsCache, fontsLoadingPromise>>
            => FirstLoadStarts \/ FirstLoadCompletes) ]_vars

\* the cache is filled, and later callers have read it or the handle
C5_Witness ==
  /\ fontsCache = decorationFonts
  /\ fontsLoadingPromise = Null
  /\ \E a, b \in Cells : callInfo[a].kind = "started" /\ callInfo[b].kind = "cached"

\* ==================================================== animation claims

CycleEdges ==
  { <<"idle", "exploding">>, <<"exploding", "hidden">>,
    <<"hidden", "fading-in">>, <<"fading-in", "idle">> }

\* C6: every change of a cell's animation state is one of idle -> exploding,
\* exploding -> hidden, hidden -> fading-in, fading-in -> idle, whatever the
\* clicks and timer firings; no state is skipped or entered twice in a row.
C6_FixedCycle ==
  [][ \A c \in Cells :
        animState'[c] # animState[c] =>
          <<animState[c], animState'[c]>> \in CycleEdges ]_vars

\* an interactive cell has gone once round the cycle, a second click
\* having been delivered on the way
C6_Witness ==
  \E c \in Cells :
    /\ interactive[c]
    /\ audioCount[c] = 1
    /\ clickCount[c] = 2
    /\ elapsed[c] = CycleMs
    /\ animState[c] = "idle"
    /\ timers[c] = {}

\* C7: a click delivered to an interactive cell that is exploding, hidden or
\* fading-in changes nothing: same animation state, no timer scheduled, no
\* audio cue.
C7_BusyClickIgnored ==
  [][ \A c \in Cells :
        ( /\ clickCount'[c] # clickCount[c]
          /\ interactive[c]
          /\ animState[c] \in {"exploding", "hidden", "fading-in"} )
        => /\ animState'[c] = animState[c]
           /\ timers'[c] = timers[c]
           /\ audioCount'[c] = audioCount[c] ]_vars

\* a click has been delivered to a hidden cell
C7_Witness ==
  \E c \in Cells :
    /\ interactive[c]
    /\ animState[c] = "hidden"
    /\ clickCount[c] = 2
    /\ audioCount[c] = 1

\* C8: the audio cue is played at the idle -> exploding transition and at no
\* other step: in every step a cell's count of cues grows by one if the
\* cell goes from idle to exploding and stays as it is otherwise.
C8_AudioOncePerCycle ==
  [][ \A c \in Cells :
        audioCount'[c] = audioCount[c] +
          (IF animState[c] = "idle" /\ animState'[c] = "exploding" THEN 1 ELSE 0) ]_vars

\* a cell has started its second cycle
C8_Witness ==
  \E c \in Cells :
    /\ audioCount[c] = 2
    /\ animState[c] = "exploding"

\* the component has been torn down
Unmounted(c) == pc[c] # "init" /\ ~isMounted[c]

\* C9 (as claimed): after a cell has unmounted, no timer callback changes its
\* animation state.
C9_NoStateAfterUnmount ==
  [][ \A c \in Cells : Unmounted(c) => animState'[c] = animState[c] ]_vars

\* no callback of cell c is due at this instant
Stable(c) == \A t \in timers[c] : t.left > 0

\* the state C10 names for each time since the click
ClaimedState(ms) ==
  IF ms < 300 THEN "exploding"
  ELSE IF ms < 1800 THEN "hidden"
  ELSE IF ms < 2300 THEN "fading-in"
  ELSE "idle"

\* C10: measured from an accepted click, an interactive cell is exploding
\* until 300 ms, hidden and fully transparent from 300 ms until 1800 ms,
\* fading-in from 1800 ms until 2300 ms, and from 2300 ms on idle and
\* accepting clicks again (at the instant a callback is due the state is the
\* one before or the one after it).
C10_Timeline ==
  \A c \in Cells :
    (interactive[c] /\ elapsed[c] >= 0) =>
      /\ Stable(c) => animState[c] = ClaimedState(elapsed[c])
      /\ ~Stable(c) => /\ elapsed[c] \in {300, 1800, 2300}
                       /\ animState[c] = ClaimedState(elapsed[c] - 1)
      /\ animState[c] = "hidden" => getAnimationStyle(c) = "opacity: 0"
      /\ (elapsed[c] < 2300 /\ Stable(c)) => ClickIgnored(c)
      /\ (elapsed[c] >= 2300 /\ Stable(c)) => ~ClickIgnored(c)

\* 2300 ms after its only click a rendered cell is idle again
C10_Witness ==
  \E c \in Cells :
    /\ Rendered(c)
    /\ interactive[c]
    /\ audioCount[c] = 1
    /\ elapsed[c] = 2300
    /\ timers[c] = {}
    /\ animState[c] = "idle"
    /\ ~ClickIgnored(c)

\* ========================================================== field claims

\* how often glyph g occurs in list
Occurrences(g, list) == Cardinality({ i \in 1..Len(list) : list[i] = g })

\* list holds the same glyphs as source, each as often
SameGlyphs(list, source) ==
  /\ Len(list) = Len(source)
  /\ \A i \in 1..Len(source) : Occurrences(source[i], list) = Occurrences(source[i], source)

\* C11: when the three fetches have succeeded and the field, still mounted,
\* has stored its list, the list is a permutation of the three categories'
\* characters put together: as long as the sum of the entry counts, with
\* every character as often as in the source data.
C11_ListIsPermutation ==
  fieldPc = "done" =>
    /\ Len(kanjiList) = Len(fetched[1]) + Len(fetched[2]) + Len(fetched[3])
    /\ SameGlyphs(kanjiList, fetched[1] \o fetched[2] \o fetched[3])

\* N5 gave 2 entries, N4 gave 1, N3 none, and 3 glyphs are stored, not in
\* the order they came
C11_Witness ==
  /\ fieldPc = "done"
  /\ Len(fetched[1]) = 2 /\ Len(fetched[2]) = 1 /\ Len(fetched[3]) = 0
  /\ Len(kanjiList) = 3
  /\ kanjiList # fetched[1] \o fetched[2] \o fetched[3]

\* C12: if a fetch fails the glyph list stays empty; the list is never a
\* partial one: in every state it is empty or holds the characters of all
\* three categories, all three fetches having succeeded; and no level is
\* fetched more than once.
C12_EmptyOrComplete ==
  /\ (\E l \in Levels : fetchState[l] = "failed") => kanjiList = << >>
  /\ kanjiList # << >> =>
       /\ \A l \in Levels : fetchState[l] = "ok"
       /\ SameGlyphs(kanjiList, fetched[1] \o fetched[2] \o fetched[3])
  /\ \A l \in Levels : fetchStarts[l] <= 1

\* two categories arrived with entries, the third failed; the load has
\* ended and the mounted field shows nothing
C12_Witness ==
  /\ fieldPc = "failed"
  /\ fieldIsMounted
  /\ \E a, b, f \in Levels :
       /\ a # b
       /\ fetchState[a] = "ok" /\ Len(fetched[a]) > 0
       /\ fetchState[b] = "ok" /\ Len(fetched[b]) > 0
       /\ fetchState[f] = "failed"
  /\ kanjiList = << >>

\* ============================================= failure and lifecycle claims

\* C13 (as claimed): when the import of the fonts fails, a cell that asked
\* for them and is still mounted once its wait is over completes its style
\* assignment and renders, with the empty font class; initializeStyles does
\* not end in a rejection.
C13_DegradesToNoFont ==
  \A c \in Cells :
    (Rejected(c) /\ pc[c] # "await" /\ isMounted[c]) =>
      /\ pc[c] = "done"
      /\ mounted[c]
      /\ styles[c].color # ""
      /\ styles[c].fontClass = ""

\* the field has been torn down
FieldUnmounted == fieldPc # "init" /\ ~fieldIsMounted

\* C14: a result that arrives after the unmount is not applied: no step
\* changes the style or the mounted flag of a cell that has unmounted, and
\* no step changes the glyph list of a field that has unmounted.
C14_NothingAppliedAfterUnmount ==
  [][ /\ \A c \in Cells :
           Unmounted(c) => (styles'[c] = styles[c] /\ mounted'[c] = mounted[c])
      /\ FieldUnmounted => kanjiList' = kanjiList ]_vars

\* a cell's fonts arrived after it had unmounted and it has neither style
\* nor mounted flag; the field's three lists arrived after it had unmounted
\* and its glyph list is still empty
C14_Witness ==
  /\ \E c \in Cells :
       /\ Unmounted(c)
       /\ pc[c] = "done"
       /\ received[c] = [status |-> "ok", fonts |-> decorationFonts]
       /\ ~mounted[c]
       /\ styles[c] = EmptyStyles
  /\ FieldUnmounted
  /\ fieldPc = "dropped"
  /\ Len(fetched[1]) > 0
  /\ kanjiList = << >>

\* C15: a cell's styles are set at most once: setStyles is called at most
\* once per cell, and once the styles are set no step -- click, timer,
\* import completing, another cell's call -- changes colour, font class or
\* animation class.
C15_StylesSetOnce ==
  /\ [](\A c \in Cells : styleWrites[c] <= 1)
  /\ [][ \A c \in Cells :
           /\ styleWrites[c] >= 1 => styles'[c] = styles[c]
           /\ styles'[c] # styles[c] => (styleWrites[c] = 0 /\ styleWrites'[c] = 1) ]_vars

\* a cell styled without a font before the fonts were cached has since been
\* clicked through a whole cycle, and keeps the style it was given
C15_Witness ==
  \E c \in Cells :
    /\ styleWrites[c] = 1
    /\ callInfo[c].kind = "skipped"
    /\ styles[c] = [color |-> "color1", fontClass |-> "", animation |-> "motion-safe:animate-pulse"]
    /\ fontsCache = decorationFonts
    /\ audioCount[c] = 1
    /\ animState[c] = "idle"

\* C16: a cell's styles are set only once the loadDecorationFonts call it
\* made has resolved; and as long as they are not set the cell renders
\* nothing, so it has received no click, played no cue, scheduled no timer
\* and is idle.
C16_StyledAfterFontsThenClickable ==
  \A c \in Cells :
    /\ (styles[c] # EmptyStyles \/ mounted[c]) =>
         /\ Called(c)
         /\ CallResult(c).status = "ok"
         /\ received[c] = CallResult(c)
         /\ styleWrites[c] = 1
    /\ styleWrites[c] = 0 =>
         /\ ~mounted[c]
         /\ clickCount[c] = 0
         /\ audioCount[c] = 0
         /\ timers[c] = {}
         /\ animState[c] = "idle"

\* one cell still waits for the import, blank and idle, while another,
\* styled from the empty list, has already accepted a click
C16_Witness ==
  \E a, b \in Cells :
    /\ pc[a] = "await" /\ isMounted[a] /\ interactive[a]
    /\ callInfo[a].kind = "started" /\ imports[1] = "pending"
    /\ ~mounted[a] /\ animState[a] = "idle"
    /\ styleWrites[b] = 1 /\ animState[b] = "exploding"

\* the state the pending callback of a cell in state st will set
FollowingState(st) ==
  CASE st = "exploding" -> "hidden"
    [] st = "hidden" -> "fading-in"
    [] st = "fading-in" -> "idle"
    [] OTHER -> "none"

\* C17: a cell never has two timers pending: an idle cell has none, and a
\* cell that is exploding, hidden or fading-in has exactly one, the one
\* that brings its next state.
C17_OneTimerPerCell ==
  \A c \in Cells :
    /\ Cardinality(timers[c]) <= 1
    /\ animState[c] = "idle" => timers[c] = {}
    /\ animState[c] # "idle" =>
         /\ Cardinality(timers[c]) = 1
         /\ \A t \in timers[c] : t.step = FollowingState(animState[c])

\* both clicks have gone to one cell, the second while it was fading in,
\* and its one timer is the one that returns it to idle
C17_Witness ==
  \E c \in Cells :
    /\ clickCount[c] = 2
    /\ audioCount[c] = 1
    /\ animState[c] = "fading-in"
    /\ timers[c] = {[left |-> 500, step |-> "idle"]}

\* C18: exploding, hidden and fading-in are transient: when pending timers
\* fire, a cell that has left idle -- as it does on every accepted click --
\* is idle again later on; it never stays in another state for ever.
C18_BackToIdle ==
  \A c \in Cells : (animState[c] # "idle") ~> (animState[c] = "idle")

\* a cell still rendered has been round the cycle twice and rests in idle
C18_Witness ==
  \E c \in Cells :
    /\ Rendered(c)
    /\ audioCount[c] = 2
    /\ animState[c] = "idle"
    /\ timers[c] = {}

\* C19: a cell that is not interactive never leaves idle: whatever clicks
\* it is given, it stays idle, schedules no timer and plays no cue.
C19_NonInteractiveStaysIdle ==
  \A c \in Cells :
    ~interactive[c] =>
      /\ animState[c] = "idle"
      /\ timers[c] = {}
      /\ audioCount[c] = 0
      /\ elapsed[c] = -1

\* a rendered cell that is not interactive has been clicked twice
C19_Witness ==
  \E c \in Cells :
    /\ Rendered(c)
    /\ ~interactive[c]
    /\ clickCount[c] = 2
    /\ animState[c] = "idle"

\* the call of cell c found the one import failed: begun, no longer
\* pending, and the cache not filled
FoundFailedLoad(c) ==
  /\ Called(c)
  /\ callInfo[c].nImports >= 1
  /\ callInfo[c].pending = Null
  /\ ~callInfo[c].loaded

\* C20: once the import has failed, the handle keeps the failed load and
\* the cache stays empty: no import is started again, and every call made
\* afterwards that passes the mode/force check is handed the failed load
\* and so the same failure.
C20_FailureIsPermanent ==
  /\ \A i \in 1..Len(imports) :
       imports[i] = "rejected" =>
         /\ fontsLoadingPromise = i
         /\ fontsCache = NullFonts
         /\ Len(imports) = 1
  /\ \A c \in Cells :
       (FoundFailedLoad(c) /\ ~Unforced(c)) =>
         /\ callInfo[c].kind = "joined"
         /\ imports[callInfo[c].promise] = "rejected"
         /\ CallResult(c).status = "rejected"
         /\ (pc[c] # "await" => pc[c] = "failed" /\ received[c].status = "rejected")

\* after the import failed another cell called, was handed the failed load
\* and its initializeStyles has ended in the same rejection
C20_Witness ==
  \E a, b \in Cells :
    /\ callInfo[a].kind = "started"
    /\ imports = <<"rejected">>
    /\ FoundFailedLoad(b)
    /\ callInfo[b].kind = "joined"
    /\ pc[b] = "failed"
    /\ received[b].status = "rejected"

====
